---- MODULE Spec2Model ----
(***************************************************************************)
(* Model of src/src/hass_mqtt/binary_sensor.rs: the AlarmEventSensor       *)
(* entity (construction, publish_config, notify_state) together with the  *)
(* State Store, the Sync Driver and the transport it is used with.        *)
(*                                                                         *)
(* Strings are TLA+ strings; an Option<T> is a sequence of length 0 (None) *)
(* or 1 (Some).  A serde_json number keeps its three representations       *)
(* (PosInt: u64, NegInt: i64, Float), a 64-bit magnitude being written as  *)
(* four 16-bit limbs, most significant first.                              *)
(***************************************************************************)
EXTENDS Integers, Sequences, FiniteSets, TLC

VARIABLES store, entities, configured, writes, last

vars == <<store, entities, configured, writes, last>>

----------------------------------------------------------------------------
(* Bounds                                                                   *)

\* the transport log keeps at most this many writes
MaxWrites == 3
\* at most this many Entity Instances are alive at once
MaxEntities == 2

----------------------------------------------------------------------------
(* Strings                                                                  *)

None == <<>>
Some(x) == <<x>>

\* str::ends_with
EndsWith(s, suffix) ==
    /\ Len(s) >= Len(suffix)
    /\ SubSeq(s, Len(s) - Len(suffix) + 1, Len(s)) = suffix

CharAt(s, i) == SubSeq(s, i, i)

RECURSIVE MapChars(_, _, _)
\* the string s with every character in the set drop removed and every other
\* character c in the domain of repl replaced by repl[c]
MapChars(s, drop, repl) ==
    IF Len(s) = 0 THEN ""
    ELSE LET c == CharAt(s, 1)
             rest == MapChars(SubSeq(s, 2, Len(s)), drop, repl)
         IN  IF c \in drop THEN rest
             ELSE IF c \in DOMAIN repl THEN repl[c] \o rest
             ELSE c \o rest

\* service::hass::topic_safe_string: ':' becomes '_'
topic_safe_string(s) == MapChars(s, {}, [c \in {":"} |-> "_"])

\* service::hass::topic_safe_id: the device id with every ':' removed
topic_safe_id(device_id) == MapChars(device_id, {":"}, <<>>)

\* service::hass::availability_topic
availability_topic == "gv2mqtt/availability"

----------------------------------------------------------------------------
(* AlarmEventSensor::new                                                    *)

\* the mapping rule of AlarmEventSensor::new with the two suffix arms in the
\* opposite order
ClassifySuffixSwapped(instance) ==
    IF instance = "lowBatteryEvent" THEN <<Some("battery"), "Low Battery">>
    ELSE IF instance = "lackWaterEvent" THEN <<Some("problem"), "Water Level Alert">>
    ELSE IF instance \in {"temperatureAlarmEvent", "tempAlarmEvent"}
        THEN <<Some("problem"), "Temperature Alarm">>
    ELSE IF instance \in {"humidityAlarmEvent", "humAlarmEvent"}
        THEN <<Some("problem"), "Humidity Alarm">>
    ELSE IF EndsWith(instance, "Event") THEN <<Some("problem"), "Alert">>
    ELSE IF EndsWith(instance, "AlarmEvent") THEN <<Some("problem"), "Alarm">>
    ELSE <<None, "Event">>

\* the mapping rule with the suffix arms tried before the exact names
ClassifySuffixFirst(instance) ==
    IF EndsWith(instance, "AlarmEvent") THEN <<Some("problem"), "Alarm">>
    ELSE IF EndsWith(instance, "Event") THEN <<Some("problem"), "Alert">>
    ELSE IF instance = "lowBatteryEvent" THEN <<Some("battery"), "Low Battery">>
    ELSE IF instance = "lackWaterEvent" THEN <<Some("problem"), "Water Level Alert">>
    ELSE <<None, "Event">>

\* the match of AlarmEventSensor::new: <<device_class, name>>, first arm wins
Classify(instance) ==
    IF instance = "lowBatteryEvent" THEN <<Some("battery"), "Low Battery">>
    ELSE IF instance = "lackWaterEvent" THEN <<Some("problem"), "Water Level Alert">>
    ELSE IF instance \in {"temperatureAlarmEvent", "tempAlarmEvent"}
        THEN <<Some("problem"), "Temperature Alarm">>
    ELSE IF instance \in {"humidityAlarmEvent", "humAlarmEvent"}
        THEN <<Some("problem"), "Humidity Alarm">>
    ELSE IF EndsWith(instance, "AlarmEvent") THEN <<Some("problem"), "Alarm">>
    ELSE IF EndsWith(instance, "Event") THEN <<Some("problem"), "Alert">>
    ELSE <<None, "Event">>

\* format!("binary-sensor-{id}-{inst}", ...)
UniqueId(device_id, instance) ==
    "binary-sensor-" \o topic_safe_id(device_id) \o "-" \o topic_safe_string(instance)

\* format!("gv2mqtt/binary_sensor/{unique_id}/state")
StateTopic(unique_id) == "gv2mqtt/binary_sensor/" \o unique_id \o "/state"

\* hass_mqtt::base::Origin::default
OriginDefault == "govee2mqtt"

\* hass_mqtt::base::Device::for_device: the device linkage of a Descriptor
DeviceForDevice(device_id) == "gv2mqtt-" \o topic_safe_id(device_id)

\* the value AlarmEventSensor::new returns (inside Ok); the StateHandle field
\* is the handle on the one store, the variable store
New(device_id, instance) ==
    LET unique_id == UniqueId(device_id, instance)
        cls == Classify(instance)
    IN  [ sensor |->
            [ base |->
                [ availability_topic |-> availability_topic,
                  name |-> Some(cls[2]),
                  entity_category |-> Some("diagnostic"),
                  origin |-> OriginDefault,
                  device |-> DeviceForDevice(device_id),
                  unique_id |-> unique_id,
                  device_class |-> cls[1],
                  icon |-> None ],
              state_topic |-> StateTopic(unique_id),
              device_class |-> cls[1],
              payload_on |-> Some("ON"),
              payload_off |-> Some("OFF") ],
          device_id |-> device_id,
          instance_name |-> instance ]

----------------------------------------------------------------------------
(* serde_json::Value, as far as notify_state reads it                       *)

Zero64 == <<0, 0, 0, 0>>
\* i64::MAX = 2^63 - 1 as limbs
I64MaxLimbs == <<32767, 65535, 65535, 65535>>

RECURSIVE LimbsLeq(_, _)
\* a <= b for two magnitudes of the same number of limbs
LimbsLeq(a, b) ==
    IF Len(a) = 0 THEN TRUE
    ELSE IF Head(a) < Head(b) THEN TRUE
    ELSE IF Head(a) > Head(b) THEN FALSE
    ELSE LimbsLeq(Tail(a), Tail(b))

\* Number(PosInt(u64))
JPosInt(mag) == [t |-> "PosInt", mag |-> mag]
\* Number(NegInt(i64)): a negative number, mag its magnitude
JNegInt(mag) == [t |-> "NegInt", mag |-> mag]
\* Number(Float(f64)) whose integer part has magnitude mag
JFloat(mag) == [t |-> "Float", mag |-> mag]

JObject(fields) == [kind |-> "Object", fields |-> fields]
JNotObject == [kind |-> "Null", fields |-> <<>>]

\* Value::pointer("/value"): the member "value" of an object, None otherwise
PointerValue(state) ==
    IF state.kind = "Object" /\ "value" \in DOMAIN state.fields
    THEN Some(state.fields["value"])
    ELSE None

\* Value::as_i64: Some for an integer that fits i64, as [neg, mag]
as_i64(v) ==
    IF v.t = "PosInt"
    THEN IF LimbsLeq(v.mag, I64MaxLimbs) THEN Some([neg |-> FALSE, mag |-> v.mag])
         ELSE None
    ELSE IF v.t = "NegInt" THEN Some([neg |-> TRUE, mag |-> v.mag])
    ELSE None

\* cap.state.pointer("/value").and_then(|v| v.as_i64()).map(|v| v != 0).unwrap_or(false)
IsActive(state) ==
    LET p == PointerValue(state)
        i == IF p = None THEN None ELSE as_i64(p[1])
    IN  IF i = None THEN FALSE ELSE i[1].mag # Zero64

\* a sensor that answers with lower-case tokens
StateValueLowerCase(is_active) == IF is_active THEN "on" ELSE "off"

\* let state_value = if is_active { "ON" } else { "OFF" }
StateValue(is_active) == IF is_active THEN "ON" ELSE "OFF"

----------------------------------------------------------------------------
(* State Store                                                              *)

NoDevice == [present |-> FALSE, caps |-> <<>>]

\* StateHandle::device_by_id
device_by_id(device_id) ==
    IF device_id \in DOMAIN store /\ store[device_id].present
    THEN Some(store[device_id])
    ELSE None

\* Device::get_state_capability_by_instance
get_state_capability_by_instance(device, instance) ==
    IF instance \in DOMAIN device.caps
    THEN Some([instance |-> instance, state |-> device.caps[instance]])
    ELSE None

----------------------------------------------------------------------------
(* Descriptor serialization and the transport                               *)

JsonStr(s) == "\"" \o s \o "\""
JsonField(k, v) == <<JsonStr(k) \o ":" \o JsonStr(v)>>
\* #[serde(skip_serializing_if = "Option::is_none")]
JsonOptField(k, opt) == IF opt = None THEN <<>> ELSE JsonField(k, opt[1])

RECURSIVE JoinComma(_)
JoinComma(fields) ==
    IF Len(fields) = 0 THEN ""
    ELSE IF Len(fields) = 1 THEN fields[1]
    ELSE fields[1] \o "," \o JoinComma(Tail(fields))

\* the serialized fields of hass_mqtt::base::EntityConfig
SerializeEntityConfig(base) ==
    JsonField("availability_topic", base.availability_topic)
        \o JsonOptField("name", base.name)
        \o JsonOptField("entity_category", base.entity_category)
        \o JsonField("origin", base.origin)
        \o JsonField("device", base.device)
        \o JsonField("unique_id", base.unique_id)
        \o JsonOptField("device_class", base.device_class)
        \o JsonOptField("icon", base.icon)

\* #[derive(Serialize)] struct BinarySensorConfig
SerializeBinarySensorConfig(sensor) ==
    "{" \o JoinComma(SerializeEntityConfig(sensor.base)
                        \o JsonField("state_topic", sensor.state_topic)
                        \o JsonOptField("device_class", sensor.device_class)
                        \o JsonOptField("payload_on", sensor.payload_on)
                        \o JsonOptField("payload_off", sensor.payload_off)) \o "}"

\* the discovery topic publish_entity_config("binary_sensor", ..) writes to
ConfigTopic(unique_id) == "homeassistant/binary_sensor/" \o unique_id \o "/config"

\* who issued a write: the (device id, instance name) of the Entity Instance;
\* a write is [topic, payload] and, for the record, the operation and its issuer
By(e) == <<e.device_id, e.instance_name>>

\* a config write whose payload also carries the sensor's current state
PublishWithState(e) ==
    LET d == device_by_id(e.device_id)
        c == IF d = None THEN None
             ELSE get_state_capability_by_instance(d[1], e.instance_name)
    IN  [ topic |-> ConfigTopic(e.sensor.base.unique_id),
          payload |-> SerializeBinarySensorConfig(e.sensor)
                        \o (IF c = None THEN "" ELSE StateValue(IsActive(c[1].state))),
          op |-> "publish_config", by |-> By(e) ]

\* BinarySensorConfig::publish: the write publish_entity_config issues
Publish(e) ==
    [ topic |-> ConfigTopic(e.sensor.base.unique_id),
      payload |-> SerializeBinarySensorConfig(e.sensor),
      op |-> "publish_config", by |-> By(e) ]

\* BinarySensorConfig::notify_state: client.publish(&self.state_topic, value)
BinarySensorNotifyState(e, value) ==
    [ topic |-> e.sensor.state_topic, payload |-> value,
      op |-> "notify_state", by |-> By(e) ]

\* what HassClient::publish returns
TransportResult(transport_ok) == IF transport_ok THEN "Ok" ELSE "Err"

----------------------------------------------------------------------------
(* EntityInstance for AlarmEventSensor                                      *)

\* a lookup that falls back to an empty raw-state when the instance is missing
SelfCapabilityOrDefault(e, device) ==
    LET c == get_state_capability_by_instance(device, e.instance_name)
    IN  IF c = None
        THEN Some([instance |-> e.instance_name, state |-> JObject(<<>>)])
        ELSE c

\* a lookup that ignores the stored instance name
SelfCapabilityAnyInstance(e, device) ==
    IF DOMAIN device.caps = {} THEN None
    ELSE LET i == CHOOSE i \in DOMAIN device.caps : TRUE
         IN  Some([instance |-> i, state |-> device.caps[i]])

\* device.get_state_capability_by_instance(&self.instance_name)
SelfCapability(e, device) == get_state_capability_by_instance(device, e.instance_name)

\* AlarmEventSensor::notify_state: what it returns and the writes it issues
NotifyState(e, transport_ok) ==
    LET device == device_by_id(e.device_id)
    IN  IF device = None
        THEN \* .expect("device to exist") panics: the call unwinds, nothing is written
             [ret |-> "Panic", out |-> <<>>]
        ELSE LET cap == SelfCapability(e, device[1])
             IN  IF cap # None
                 THEN [ ret |-> TransportResult(transport_ok),
                        out |-> <<BinarySensorNotifyState(
                                    e, StateValue(IsActive(cap[1].state)))>> ]
                 ELSE [ret |-> "Ok", out |-> <<>>]

\* AlarmEventSensor::publish_config
PublishConfig(e, transport_ok) ==
    [ret |-> TransportResult(transport_ok), out |-> <<Publish(e)>>]

----------------------------------------------------------------------------
(* Inputs                                                                   *)

\* devices the vendor session reports
RuntimeDeviceIds == {"AA:BB"}
\* capability instances of a device
RuntimeInstances == {"lowBatteryEvent", "weirdXEvent"}

ScalarValues ==
    { JPosInt(Zero64), JPosInt(<<0, 0, 0, 1>>), JPosInt(<<32768, 0, 0, 0>>),
      JNegInt(<<0, 0, 0, 1>>), JFloat(<<0, 0, 0, 1>>) }

\* raw-states a capability event may carry: {"value": v}, {} and a non-object
RawStates ==
    { JObject([k \in {"value"} |-> v]) : v \in ScalarValues }
        \cup { JObject(<<>>), JNotObject }

\* instance names the mapping rule is applied to
NamePrefixes == {"", "temperature", "customVendor", "weirdX", "unknownThing"}
NameSuffixes == {"AlarmEvent", "Event", "alarmevent", ""}
ClassNames ==
    { p \o x : p \in NamePrefixes, x \in NameSuffixes }
        \cup { "lowBatteryEvent", "lackWaterEvent", "tempAlarmEvent",
               "humidityAlarmEvent", "humAlarmEvent" }

\* the (device id, instance name) pairs AlarmEventSensor::new is applied to
NewInputs ==
    ({"AA:BB"} \X ClassNames)
        \cup ({"a-b", "a"} \X {"c", "b-c"})

----------------------------------------------------------------------------
(* Operations                                                               *)

NoOne == <<"", "">>
StoreOp == [op |-> "store", by |-> NoOne, ret |-> "Ok", sent |-> 0]

Init ==
    /\ store = [d \in RuntimeDeviceIds |-> NoDevice]
    /\ entities = {}
    /\ configured = {}
    /\ writes = <<>>
    /\ last = [op |-> "init", by |-> NoOne, ret |-> "Ok", sent |-> 0]

\* State Store: a device is created on first sighting
DeviceDiscovered(d) ==
    /\ ~store[d].present
    /\ store' = [store EXCEPT ![d] = [present |-> TRUE, caps |-> <<>>]]
    /\ last' = StoreOp
    /\ UNCHANGED <<entities, configured, writes>>

\* State Store: the vendor session no longer reports the device
DeviceRemoved(d) ==
    /\ store[d].present
    /\ store' = [store EXCEPT ![d] = NoDevice]
    /\ last' = StoreOp
    /\ UNCHANGED <<entities, configured, writes>>

\* State Store: upsert_capability(device_id, instance_name, raw_state)
UpsertCapability(d, i, raw) ==
    /\ store[d].present
    /\ store' = [store EXCEPT ![d].caps =
                    [k \in DOMAIN @ \cup {i} |-> IF k = i THEN raw ELSE @[k]]]
    /\ last' = StoreOp
    /\ UNCHANGED <<entities, configured, writes>>

\* State Store: a capability disappears from the device's reported state
CapabilityRemoved(d, i) ==
    /\ store[d].present
    /\ i \in DOMAIN store[d].caps
    /\ store' = [store EXCEPT ![d].caps = [k \in DOMAIN @ \ {i} |-> @[k]]]
    /\ last' = StoreOp
    /\ UNCHANGED <<entities, configured, writes>>

\* AlarmEventSensor::new applied to (device, instance): always Ok(Self)
Construct(d, i) ==
    /\ LET e == New(d, i)
       IN  /\ e \in entities \/ Cardinality(entities) < MaxEntities
           /\ entities' = entities \cup {e}
    /\ last' = [op |-> "new", by |-> <<d, i>>, ret |-> "Ok", sent |-> 0]
    /\ UNCHANGED <<store, configured, writes>>

\* Sync Driver: materialize the Entity Instance of a capability of a known device
DriverConstruct(d, i) ==
    /\ store[d].present
    /\ Construct(d, i)

\* a driver that notifies without regard to config publication
DriverMayNotifyAlways(e) == TRUE

\* Sync Driver: config publication is issued before the first state notification
DriverMayNotify(e) == e.sensor.base.unique_id \in configured

\* the transport log after an operation with outcome r (the log is bounded)
Issue(r, op, e) ==
    /\ Len(writes) + Len(r.out) <= MaxWrites
    /\ writes' = writes \o r.out
    /\ last' = [op |-> op, by |-> By(e), ret |-> r.ret, sent |-> Len(r.out)]

\* Sync Driver calls publish_config on an Entity Instance
DriverPublishConfig(e, transport_ok) ==
    /\ Issue(PublishConfig(e, transport_ok), "publish_config", e)
    /\ configured' = configured \cup {e.sensor.base.unique_id}
    /\ UNCHANGED <<store, entities>>

\* Sync Driver calls notify_state on an Entity Instance
DriverNotifyState(e, transport_ok) ==
    /\ DriverMayNotify(e)
    /\ Issue(NotifyState(e, transport_ok), "notify_state", e)
    /\ UNCHANGED <<store, entities, configured>>

Next ==
    \/ \E d \in RuntimeDeviceIds : DeviceDiscovered(d)
    \/ \E d \in RuntimeDeviceIds : DeviceRemoved(d)
    \/ \E d \in RuntimeDeviceIds, i \in RuntimeInstances, raw \in RawStates :
            UpsertCapability(d, i, raw)
    \/ \E d \in RuntimeDeviceIds, i \in RuntimeInstances : CapabilityRemoved(d, i)
    \/ \E d \in RuntimeDeviceIds, i \in RuntimeInstances : DriverConstruct(d, i)
    \/ \E e \in entities, ok \in BOOLEAN : DriverPublishConfig(e, ok)
    \/ \E e \in entities, ok \in BOOLEAN : DriverNotifyState(e, ok)

Spec == Init /\ [][Next]_vars

\* AlarmEventSensor::new applied to every bounded (device id, instance name)
NextNew == \E p \in NewInputs : Construct(p[1], p[2])

SpecNew == Init /\ [][NextNew]_vars

----------------------------------------------------------------------------
(* Properties of AlarmEventSensor::new (checked under SpecNew)              *)

ExactNames ==
    { "lowBatteryEvent", "lackWaterEvent", "temperatureAlarmEvent", "tempAlarmEvent",
      "humidityAlarmEvent", "humAlarmEvent" }

\* the outcome a constructed sensor carries: <<device_class, name>>
Outcome(e) == <<e.sensor.device_class, e.sensor.base.name>>

\* C4, as stated: a name with no exact match ending in "AlarmEvent" is
\* ("problem", "Alarm"); one ending in "Event" but not "AlarmEvent" has no
\* device-class and is named "Alert"; any other has no device-class and is
\* named "Event".
C4_FallbackNaming_AsStated ==
    \A e \in entities :
        e.instance_name \notin ExactNames =>
            IF EndsWith(e.instance_name, "AlarmEvent")
            THEN Outcome(e) = <<Some("problem"), Some("Alarm")>>
            ELSE IF EndsWith(e.instance_name, "Event")
            THEN Outcome(e) = <<None, Some("Alert")>>
            ELSE Outcome(e) = <<None, Some("Event")>>

\* C4, amended: as stated, except that a name ending in "Event" but not
\* "AlarmEvent" gets device-class "problem" with the name "Alert".
C4_FallbackNaming ==
    \A e \in entities :
        /\ e.sensor.base.device_class = e.sensor.device_class
        /\ e.instance_name \notin ExactNames =>
            IF EndsWith(e.instance_name, "AlarmEvent")
            THEN Outcome(e) = <<Some("problem"), Some("Alarm")>>
            ELSE IF EndsWith(e.instance_name, "Event")
            THEN Outcome(e) = <<Some("problem"), Some("Alert")>>
            ELSE Outcome(e) = <<None, Some("Event")>>

\* the three names of the scenario have been classified, two of them at once
C4_Witness ==
    /\ \E e \in entities :
            e.instance_name = "weirdXEvent" /\ Outcome(e) = <<Some("problem"), Some("Alert")>>
    /\ \E e \in entities :
            \/ e.instance_name = "customVendorAlarmEvent" /\ e.sensor.base.name = Some("Alarm")
            \/ e.instance_name = "unknownThing" /\ e.sensor.base.name = Some("Event")

\* the display name the exact-name rules give
ExactDisplayName(instance) ==
    IF instance = "lowBatteryEvent" THEN "Low Battery"
    ELSE IF instance = "lackWaterEvent" THEN "Water Level Alert"
    ELSE IF instance \in {"temperatureAlarmEvent", "tempAlarmEvent"} THEN "Temperature Alarm"
    ELSE "Humidity Alarm"

\* C5: new never fails and yields exactly one outcome per instance name; an
\* exact name gets its own display name even when a suffix rule also matches,
\* "AlarmEvent" wins over "Event", only names matching no rule get the default
\* "Event", and a name differing in case from a rule does not match it.
C5_ClassificationTotalAndOrdered ==
    /\ last.op = "new" =>
        /\ last.ret = "Ok"
        /\ \E e \in entities : By(e) = last.by
    /\ \A e1, e2 \in entities : By(e1) = By(e2) => e1 = e2
    /\ \A e \in entities :
        LET n == e.instance_name
            name == e.sensor.base.name
        IN  /\ Len(name) = 1
            /\ Len(e.sensor.device_class) <= 1
            /\ n \in ExactNames => name = Some(ExactDisplayName(n))
            /\ n \notin ExactNames /\ EndsWith(n, "AlarmEvent") => name = Some("Alarm")
            /\ n \notin ExactNames /\ ~EndsWith(n, "AlarmEvent") /\ EndsWith(n, "Event")
                => name = Some("Alert")
            /\ name = Some("Event")
                <=> (n \notin ExactNames /\ ~EndsWith(n, "Event"))
            /\ n \in {"temperaturealarmevent", "customVendoralarmevent", "alarmevent"}
                => Outcome(e) = <<None, Some("Event")>>

\* an exact name that a suffix rule also matches, next to a name that differs
\* from it only in case
C5_Witness ==
    /\ \E e \in entities :
            e.instance_name = "temperatureAlarmEvent"
                /\ e.sensor.base.name = Some("Temperature Alarm")
    /\ \E e \in entities :
            e.instance_name = "temperaturealarmevent" /\ e.sensor.base.name = Some("Event")

\* C6, as stated: the unique id is "binary-sensor-<topic-safe device id>-
\* <topic-safe instance name>", the same whenever the same (device, instance
\* name) is constructed, and two distinct (device, instance name) pairs never
\* share a unique id or a state topic.
C6_UniqueIdCollisionFree ==
    /\ \A e \in entities :
        /\ e.sensor.base.unique_id =
              "binary-sensor-" \o topic_safe_id(e.device_id) \o "-"
                  \o topic_safe_string(e.instance_name)
        /\ e = New(e.device_id, e.instance_name)
    /\ \A e1, e2 \in entities :
        By(e1) # By(e2) =>
            /\ e1.sensor.base.unique_id # e2.sensor.base.unique_id
            /\ e1.sensor.state_topic # e2.sensor.state_topic

----------------------------------------------------------------------------
(* Properties of publish_config and notify_state (checked under Spec)       *)

\* notify_state was the last operation; the store is as notify_state read it
Notified == last.op = "notify_state"
LastDevicePresent == store[last.by[1]].present
LastCapPresent == LastDevicePresent /\ last.by[2] \in DOMAIN store[last.by[1]].caps
LastWrite == writes[Len(writes)]
StateWrites == { i \in DOMAIN writes : writes[i].op = "notify_state" }
ConfigWrites == { i \in DOMAIN writes : writes[i].op = "publish_config" }

\* the Entity Instance that issued a write or ran the last operation
EntityOf(by) == CHOOSE e \in entities : By(e) = by

\* C1, as stated: when the device of a constructed sensor is gone from the
\* State Store, notify_state returns Ok and issues no transport write.
C1_StaleReadSafety ==
    Notified /\ ~LastDevicePresent => last.ret = "Ok" /\ last.sent = 0

\* C2: with the device present and no state capability of the sensor's
\* instance name, notify_state returns Ok and writes nothing; it writes (once,
\* to the state topic) only when that capability is found.
C2_MissingCapabilityIsNoOp ==
    Notified /\ LastDevicePresent =>
        /\ ~LastCapPresent => last.ret = "Ok" /\ last.sent = 0
        /\ last.sent > 0 =>
            /\ LastCapPresent
            /\ last.sent = 1
            /\ LastWrite.by = last.by
            /\ LastWrite.topic = EntityOf(last.by).sensor.state_topic

\* notify_state ran for a present device that has another capability but not
\* the sensor's own
C2_Witness ==
    /\ Notified /\ LastDevicePresent /\ ~LastCapPresent
    /\ DOMAIN store[last.by[1]].caps # {}
    /\ last.ret = "Ok" /\ last.sent = 0

\* the "value" field of a raw-state is a nonzero integer
ValueIsNonzeroInteger(state) ==
    /\ state.kind = "Object"
    /\ "value" \in DOMAIN state.fields
    /\ state.fields["value"].t \in {"PosInt", "NegInt"}
    /\ state.fields["value"].mag # Zero64

\* C3, as stated: with the capability present notify_state publishes exactly
\* one token, "ON" if the raw-state's "value" is a nonzero integer and "OFF"
\* if it is 0, missing or not an integer, and fails only if the transport does.
C3_TransformCorrectness ==
    Notified /\ LastCapPresent =>
        /\ last.sent = 1
        /\ last.ret # "Panic"
        /\ LastWrite.payload =
              IF ValueIsNonzeroInteger(store[last.by[1]].caps[last.by[2]])
              THEN "ON" ELSE "OFF"

\* C7: the token notify_state publishes is the one of the raw-state the State
\* Store holds for the sensor's (device id, instance name) when notify_state
\* runs, whatever the store held before.
C7_ReadAtPublishTime ==
    Notified /\ last.sent > 0 =>
        /\ LastCapPresent
        /\ LastWrite.by = last.by
        /\ LastWrite.payload =
              StateValue(IsActive(store[last.by[1]].caps[last.by[2]]))

\* one sensor has published two different tokens, the second just now
C7_Witness ==
    /\ Notified /\ last.sent = 1
    /\ \E i \in StateWrites :
            /\ i < Len(writes)
            /\ writes[i].by = last.by
            /\ writes[i].payload # LastWrite.payload

\* C8: every state write of an entity is preceded in the transport log by a
\* config write to the discovery topic of that entity's unique id.
C8_ConfigBeforeState ==
    \A i \in StateWrites :
        \E j \in 1..(i - 1) :
            /\ writes[j].op = "publish_config"
            /\ writes[j].topic =
                  ConfigTopic(EntityOf(writes[i].by).sensor.base.unique_id)

\* a state write has happened, with its config write before it
C8_Witness ==
    \E i \in StateWrites : \E j \in ConfigWrites : j < i /\ writes[j].by = writes[i].by

C10_StateWriteVocabulary ==
    \A i \in StateWrites :
        \E e \in entities :
            /\ By(e) = writes[i].by
            /\ writes[i].topic = e.sensor.state_topic
            /\ writes[i].topic =
                  "gv2mqtt/binary_sensor/" \o e.sensor.base.unique_id \o "/state"
            /\ Some(writes[i].payload) \in {e.sensor.payload_on, e.sensor.payload_off}
            /\ writes[i].payload \in {"ON", "OFF"}
            /\ e.sensor.payload_on = Some("ON") /\ e.sensor.payload_off = Some("OFF")

\* both tokens have been published while two sensors exist
C10_Witness ==
    /\ Cardinality(entities) = 2
    /\ \E i, j \in StateWrites :
            writes[i].payload = "ON" /\ writes[j].payload = "OFF"

====
